---- MODULE Spec2Model ----
(***************************************************************************)
(* Model of the ble_advert_data integration                                *)
(* (custom_components/ble_advert_data).                                    *)
(*                                                                         *)
(*   Spec      a per-rule byte sensor (sensor.py, BleAdvertDataByteSensor) *)
(*             receiving advertisement events: _extract_rule_bytes,        *)
(*             _parse_int, _get_raw_bytes, _parse_rule_value and           *)
(*             _update_from_service_info.                                  *)
(*   LiveSpec  the connectivity sensor (binary_sensor.py,                  *)
(*             BleAdvertConnectivitySensor): advertisement events and the  *)
(*             periodic timeout check, with the two platform clocks.       *)
(*   TeardownSpec  one entity of each class from construction to removal:  *)
(*             async_added_to_hass, the registered callbacks, removal.     *)
(*   EntrySpec the config entry (__init__.py): async_setup_entry forwards  *)
(*             PLATFORMS, the entities are added, async_unload_entry.      *)
(*   FlowSpec  the options flow (config_flow.py): two flows adding,        *)
(*             editing and removing rules of one entry.                    *)
(*   DeviceSpec  the entities of two entries side by side: the sensors     *)
(*             and the connectivity sensor of each address, seeded when    *)
(*             added, fed by advertisements, checked by their timers.      *)
(*                                                                         *)
(* Python values are tagged records [t |-> <type>, v |-> <payload>]; a str *)
(* is a sequence of one-character strings, bytes a sequence of 0..255.     *)
(* A float is modelled by an integer (only integral scales are drawn).     *)
(***************************************************************************)
EXTENDS Integers, Sequences, FiniteSets, TLC

VARIABLES
    rule,               \* BleAdvertDataByteSensor._rule
    info,               \* the service_info of the last advertisement event (None before)
    attr_available,     \* BleAdvertDataByteSensor._attr_available
    attr_native_value,  \* BleAdvertDataByteSensor._attr_native_value
    attr_raw_bytes,     \* _attr_extra_state_attributes["raw_bytes"]
    extracted,          \* what _extract_rule_bytes did in the last advertisement callback
    exc,                \* exception raised by the last advertisement callback ("" = none)
    attr_is_on,         \* BleAdvertConnectivitySensor._attr_is_on
    last_seen,          \* BleAdvertConnectivitySensor._last_seen
    mono,               \* the platform's monotonic clock (stamps service_info.time)
    epoch,              \* wall-clock reading (Unix seconds) when the monotonic clock read 0
    last_op,            \* the last callback that ran on the connectivity sensor
    prev_is_on,         \* _attr_is_on when that callback began
    prev_last_seen,     \* _last_seen when that callback began
    wrote,              \* whether that callback called async_write_ha_state
    offline_writes,     \* async_write_ha_state calls by the timeout check since the last advertisement
    entry_state,        \* the config entry: "not_loaded" or "loaded"
    life,               \* per entity: "absent", "constructed", "added", "failed" or "removed"
    registered,         \* callbacks registered with the platform: bluetooth callbacks and interval timers
    on_remove,          \* release handles the entities handed to async_on_remove
    platform_op,        \* the last thing the platform did to the entry and its entities
    options_rules,      \* entry.options[CONF_RULES]: the stored rule list
    context,            \* per options flow: self.context[CONF_RULE_ID], NoRuleId when absent
    uuids,              \* how many ids uuid4 has returned
    registry,           \* unique ids of the rule sensors in the entity registry
    flow_log,           \* what the last options-flow handler requested, in order
    overtaken,          \* per options flow: whether another flow stored a list since its last form
    flow_last,          \* the last options-flow handler call and its result
    objects,            \* the entity objects of several entries, each a record of its attributes
    service_infos,              \* what bluetooth.async_discovered_service_info(hass) returns
    subscribed,         \* the callbacks those entities registered, each with its matcher address
    device_last         \* the last thing that happened to those entities, and for which address

vars == <<rule, info, attr_available, attr_native_value, attr_raw_bytes, extracted, exc,
          attr_is_on, last_seen, mono, epoch, last_op, prev_is_on, prev_last_seen,
          wrote, offline_writes, entry_state, life, registered, on_remove, platform_op,
          options_rules, context, uuids, registry, flow_log, overtaken, flow_last,
          objects, service_infos, subscribed, device_last>>

sensorVars == <<rule, info, attr_available, attr_native_value, attr_raw_bytes,
                extracted, exc>>
liveVars == <<attr_is_on, last_seen, mono, epoch, last_op, prev_is_on, prev_last_seen,
              wrote, offline_writes>>
connVars == <<attr_is_on, last_seen, last_op, prev_is_on, prev_last_seen, wrote,
              offline_writes>>
clockVars == <<mono, epoch>>
lifeVars == <<entry_state, life, registered, on_remove, platform_op>>
flowVars == <<options_rules, context, uuids, registry, flow_log, overtaken, flow_last>>
deviceVars == <<objects, service_infos, subscribed, device_last>>
restVars == <<lifeVars, flowVars, deviceVars>>
entityVars == <<sensorVars, liveVars, lifeVars, deviceVars>>

(***************************************************************************)
(* Python values                                                           *)
(***************************************************************************)
None == [t |-> "None"]
PyStr(s) == [t |-> "str", v |-> s]
PyInt(n) == [t |-> "int", v |-> n]
PyFloat(x) == [t |-> "float", v |-> x]
PyBytes(b) == [t |-> "bytes", v |-> b]
PyDict(f) == [t |-> "dict", v |-> f]

\* Python truthiness: "not x"
Falsy(x) ==
    CASE x.t = "None" -> TRUE
      [] x.t \in {"str", "bytes"} -> Len(x.v) = 0
      [] x.t \in {"int", "float"} -> x.v = 0
      [] x.t = "dict" -> DOMAIN x.v = {}
      [] OTHER -> FALSE

\* "a or b"
Or(a, b) == IF Falsy(a) THEN b ELSE a

\* dict.get(key): None when the key is absent
DictGet(d, k) == IF k \in DOMAIN d.v THEN d.v[k] ELSE None

(***************************************************************************)
(* const.py                                                                *)
(***************************************************************************)
SOURCE_MANUFACTURER == "manufacturer_data"
SOURCE_SERVICE == "service_data"
SOURCE_RAW == "raw"
ENDIAN_BIG == "big"
ENDIAN_LITTLE == "little"

(***************************************************************************)
(* str.lower, bytes.hex, int(value, 0), int.from_bytes                     *)
(***************************************************************************)
UpperChars == <<"A", "B", "C", "D", "E", "F", "G", "H", "I", "J", "K", "L", "M",
                "N", "O", "P", "Q", "R", "S", "T", "U", "V", "W", "X", "Y", "Z">>
LowerChars == <<"a", "b", "c", "d", "e", "f", "g", "h", "i", "j", "k", "l", "m",
                "n", "o", "p", "q", "r", "s", "t", "u", "v", "w", "x", "y", "z">>

LowerChar(c) ==
    IF \E i \in DOMAIN UpperChars : UpperChars[i] = c
    THEN LowerChars[CHOOSE i \in DOMAIN UpperChars : UpperChars[i] = c]
    ELSE c

\* str.lower()
Lower(s) == [i \in DOMAIN s |-> LowerChar(s[i])]

HexDigits == <<"0", "1", "2", "3", "4", "5", "6", "7",
               "8", "9", "a", "b", "c", "d", "e", "f">>

UpperHexDigits == <<"0", "1", "2", "3", "4", "5", "6", "7",
                    "8", "9", "A", "B", "C", "D", "E", "F">>

\* bytes.hex().upper(): the digits in upper case
RECURSIVE HexUpper(_)
HexUpper(b) ==
    IF b = <<>> THEN <<>>
    ELSE <<UpperHexDigits[(Head(b) \div 16) + 1], UpperHexDigits[(Head(b) % 16) + 1]>>
         \o HexUpper(Tail(b))

\* bytes.hex(): two lowercase digits per byte, in order
RECURSIVE Hex(_)
Hex(b) ==
    IF b = <<>> THEN <<>>
    ELSE <<HexDigits[(Head(b) \div 16) + 1], HexDigits[(Head(b) % 16) + 1]>> \o Hex(Tail(b))

\* value of a digit character in the given base, -1 when it is not a digit of it
DigitVal(c, base) ==
    LET lc == LowerChar(c)
        v == IF \E i \in DOMAIN HexDigits : HexDigits[i] = lc
             THEN (CHOOSE i \in DOMAIN HexDigits : HexDigits[i] = lc) - 1
             ELSE -1
    IN IF v >= 0 /\ v < base THEN v ELSE -1

IsSpace(c) == c \in {" ", "\t", "\n", "\r"}

RECURSIVE LStrip(_)
LStrip(s) == IF s # <<>> /\ IsSpace(Head(s)) THEN LStrip(Tail(s)) ELSE s

RECURSIVE RStrip(_)
RStrip(s) ==
    IF s # <<>> /\ IsSpace(s[Len(s)]) THEN RStrip(SubSeq(s, 1, Len(s) - 1)) ELSE s

\* digits of a literal: digits of the base, single underscores only between
\* digits (after a base prefix one may also lead)
RECURSIVE DigitsOk(_, _, _)
DigitsOk(s, base, prevDigit) ==
    IF s = <<>> THEN prevDigit
    ELSE IF Head(s) = "_" THEN prevDigit /\ DigitsOk(Tail(s), base, FALSE)
    ELSE DigitVal(Head(s), base) >= 0 /\ DigitsOk(Tail(s), base, TRUE)

RECURSIVE DigitsValue(_, _, _)
DigitsValue(s, base, acc) ==
    IF s = <<>> THEN acc
    ELSE IF Head(s) = "_" THEN DigitsValue(Tail(s), base, acc)
    ELSE DigitsValue(Tail(s), base, acc * base + DigitVal(Head(s), base))

\* the parse of an int literal: [ok |-> FALSE] stands for ValueError
Parsed(n) == [ok |-> TRUE, v |-> n]
ValueError == [ok |-> FALSE, v |-> 0]

\* the magnitude written by the digits of a literal in a base
ParseDigits(digits, base) ==
    IF digits # <<>> /\ DigitsOk(digits, base, FALSE)
    THEN Parsed(DigitsValue(digits, base, 0))
    ELSE ValueError

\* base 0 refuses a decimal literal with a leading zero unless it is zero
RefuseLeadingZero(digits, p) ==
    IF p.ok /\ Head(digits) = "0" /\ p.v # 0 THEN ValueError ELSE p

\* the base a prefix letter selects, 10 when it is no prefix letter
BaseOf(c) == IF c = "x" THEN 16 ELSE IF c = "o" THEN 8 ELSE IF c = "b" THEN 2 ELSE 10

\* one underscore may follow a base prefix
SkipUnderscore(digits) ==
    IF digits # <<>> /\ Head(digits) = "_" THEN Tail(digits) ELSE digits

ParseUnsigned(body) ==
    IF Len(body) >= 2 /\ body[1] = "0" /\ BaseOf(LowerChar(body[2])) # 10
    THEN ParseDigits(SkipUnderscore(SubSeq(body, 3, Len(body))), BaseOf(LowerChar(body[2])))
    ELSE RefuseLeadingZero(body, ParseDigits(body, 10))

Negate(p) == [ok |-> p.ok, v |-> 0 - p.v]

ParseSigned(s) ==
    IF s = <<>> THEN ValueError
    ELSE IF Head(s) = "-" THEN Negate(ParseUnsigned(Tail(s)))
    ELSE IF Head(s) = "+" THEN ParseUnsigned(Tail(s))
    ELSE ParseUnsigned(s)

\* int(text, 0) on a str
IntBase0(text) == ParseSigned(RStrip(LStrip(text)))

RECURSIVE Pow(_, _)
Pow(b, n) == IF n = 0 THEN 1 ELSE b * Pow(b, n - 1)

RECURSIVE Reverse(_)
Reverse(s) == IF s = <<>> THEN <<>> ELSE Reverse(Tail(s)) \o <<Head(s)>>

\* big-endian unsigned value of a byte sequence
RECURSIVE BigUnsigned(_, _)
BigUnsigned(b, acc) ==
    IF b = <<>> THEN acc ELSE BigUnsigned(Tail(b), acc * 256 + Head(b))

\* int.from_bytes(chunk, byteorder=byteorder, signed=signed)
FromBytes(chunk, byteorder, signed) ==
    LET u == BigUnsigned(IF byteorder = "little" THEN Reverse(chunk) ELSE chunk, 0)
        half == Pow(2, 8 * Len(chunk) - 1)
    IN IF signed /\ Len(chunk) > 0 /\ u >= half THEN u - 2 * half ELSE u

(***************************************************************************)
(* sensor.py: extraction and decoding.  A function result is               *)
(* [exc |-> "" or the exception raised, v |-> the value returned].         *)
(***************************************************************************)
Return(x) == [exc |-> "", v |-> x]
Raise(e) == [exc |-> e, v |-> None]

\* a key a rule record does not hold
MISSING == "<missing>"

\* rule.get(key, default)
RuleGet(r, key, default) == IF r[key] = MISSING THEN default ELSE r[key]

\* the int parsed, None where ValueError is caught
IntOrNone(p) == IF p.ok THEN PyInt(p.v) ELSE None

\* int(value) in place of int(value, 0): decimal only
_parse_int_decimal(value) ==
    IF value.t # "str" THEN Raise("TypeError")
    ELSE Return(IntOrNone(ParseDigits(RStrip(LStrip(value.v)), 10)))

\* _parse_int(value): int(value, 0), ValueError turned into None; a value
\* that is not a str makes int(value, 0) raise TypeError, which is not caught
_parse_int(value) ==
    IF value.t # "str" THEN Raise("TypeError")
    ELSE Return(IntOrNone(IntBase0(value.v)))

\* _get_raw_bytes(service_info)
BytesOrNone(raw_data) ==
    IF raw_data.t \in {"bytes", "bytearray"} THEN PyBytes(raw_data.v) ELSE None

_get_raw_bytes(service_info) ==
    IF service_info.advertisement.t = "None" THEN None
    ELSE BytesOrNone(Or(service_info.advertisement.v.data,
                        service_info.advertisement.v.raw_data))

\* the manufacturer_data branch of _extract_rule_bytes
LookupManufacturer(service_info, key) ==
    IF key.exc # "" THEN key
    ELSE IF key.v.t = "None" THEN Return(None)
    ELSE Return(DictGet(Or(service_info.manufacturer_data, PyDict(<<>>)), key.v.v))

ExtractManufacturer(service_info, source_key) ==
    IF Falsy(source_key) THEN Return(None)
    ELSE LookupManufacturer(service_info, _parse_int(source_key))

\* the lowercased key tried first
LookupServiceLowerFirst(service_data, source_key) ==
    IF source_key.t # "str" THEN Raise("AttributeError")
    ELSE IF Lower(source_key.v) \in DOMAIN service_data.v
    THEN Return(DictGet(service_data, Lower(source_key.v)))
    ELSE Return(DictGet(service_data, source_key.v))

\* the service_data branch of _extract_rule_bytes
LookupService(service_data, source_key) ==
    IF source_key.t = "str" /\ source_key.v \in DOMAIN service_data.v
    THEN Return(DictGet(service_data, source_key.v))
    ELSE IF source_key.t # "str" THEN Raise("AttributeError")
    ELSE Return(DictGet(service_data, Lower(source_key.v)))

ExtractService(service_info, source_key) ==
    IF Falsy(source_key) THEN Return(None)
    ELSE LookupService(Or(service_info.service_data, PyDict(<<>>)), source_key)

\* _extract_rule_bytes(service_info, rule)
_extract_rule_bytes(service_info, r) ==
    IF r.source_type = SOURCE_MANUFACTURER
    THEN ExtractManufacturer(service_info, r.source_key)
    ELSE IF r.source_type = SOURCE_SERVICE
    THEN ExtractService(service_info, r.source_key)
    ELSE IF r.source_type = SOURCE_RAW
    THEN Return(_get_raw_bytes(service_info))
    ELSE Return(None)

\* the (value, raw_hex) tuple _parse_rule_value returns
Tuple(value, raw_hex) == [exc |-> "", value |-> value, raw_hex |-> raw_hex]
Raised(e) == [exc |-> e, value |-> None, raw_hex |-> None]

\* data[offset:end] for 0 <= offset <= end <= len(data)
Slice(data, offset, end) == SubSeq(data, offset + 1, end)

\* the two byte orders exchanged
ByteOrderSwapped(endian) == IF endian = ENDIAN_LITTLE THEN "big" ELSE "little"

\* the byteorder _parse_rule_value passes to int.from_bytes
ByteOrder(endian) == IF endian = ENDIAN_LITTLE THEN "little" ELSE "big"

\* the decoding of _parse_rule_value once data, offset and length are accepted
DecodeChunk(chunk, r) ==
    IF chunk = <<>> THEN Tuple(None, None)
    ELSE Tuple(PyFloat(FromBytes(chunk, ByteOrder(RuleGet(r, "endian", ENDIAN_BIG)), r.signed)
                       * r.scale),
               PyStr(Hex(chunk)))

\* end >= len(data) in place of end > len(data)
OutOfRangeOffByOne(offset, length, size) ==
    length <= 0 \/ offset < 0 \/ offset + length >= size

\* whether _parse_rule_value refuses the slice [offset, offset + length) of data
OutOfRange(offset, length, size) ==
    length <= 0 \/ offset < 0 \/ offset + length > size

\* _parse_rule_value from the extracted data on
ParseData(data, r) ==
    IF data.exc # "" THEN Raised(data.exc)
    ELSE IF Falsy(data.v) THEN Tuple(None, None)
    ELSE IF OutOfRange(r.offset, r.length, Len(data.v.v)) THEN Tuple(None, None)
    ELSE DecodeChunk(Slice(data.v.v, r.offset, r.offset + r.length), r)

\* _parse_rule_value(service_info, rule)
_parse_rule_value(service_info, r) == ParseData(_extract_rule_bytes(service_info, r), r)

(***************************************************************************)
(* Inputs: the advertisement snapshots the platform delivers and the rule  *)
(* records an entity is created with.                                      *)
(***************************************************************************)
\* longest source payload drawn
MaxLen == 2

ByteVals == {0, 1, 128, 171, 205, 255}

\* all byte strings of length 0..n over ByteVals
RECURSIVE ByteSeqs(_)
ByteSeqs(n) ==
    IF n = 0 THEN {<<>>}
    ELSE LET shorter == ByteSeqs(n - 1)
         IN shorter \cup {<<b>> \o s : b \in ByteVals, s \in {x \in shorter : Len(x) = n - 1}}

Sources == ByteSeqs(MaxLen)

\* a few payloads of every length, for the snapshots whose payload is not the subject
SampleSources == {s \in Sources : \A i \in DOMAIN s : s[i] = 171 + 34 * ((i - 1) % 2)}

\* an object with the attributes data and raw_data (a missing attribute reads None)
Advertisement(data, raw_data) == [t |-> "object", v |-> [data |-> data, raw_data |-> raw_data]]

ServiceInfo(manufacturer_data, service_data, advertisement) ==
    [manufacturer_data |-> manufacturer_data,
     service_data |-> service_data,
     advertisement |-> advertisement]

\* snapshots that carry only a raw payload
RawInfos ==
    {ServiceInfo(PyDict(<<>>), PyDict(<<>>), Advertisement(PyBytes(s), None)) : s \in Sources}
    \cup {ServiceInfo(None, None, None)}
    \cup {ServiceInfo(PyDict(<<>>), PyDict(<<>>), Advertisement(d, PyBytes(s))) :
            d \in {None, PyBytes(<<>>), PyBytes(<<1>>), PyStr(<<"a", "b">>)},
            s \in {<<>>, <<205, 171>>}}
    \cup {ServiceInfo(PyDict(<<>>), PyDict(<<>>), Advertisement(d, None)) :
            d \in {None, PyStr(<<"a", "b">>), [t |-> "bytearray", v |-> <<171, 205>>]}}

\* snapshots that carry only manufacturer data, for company ids 76 and 77
ManufacturerInfos ==
    {ServiceInfo(None, PyDict(<<>>), None), ServiceInfo(PyDict(<<>>), PyDict(<<>>), None)}
    \cup {ServiceInfo(PyDict(76 :> PyBytes(s)), PyDict(<<>>), None) : s \in SampleSources}
    \cup {ServiceInfo(PyDict(77 :> PyBytes(s)), PyDict(<<>>), None) : s \in SampleSources}
    \cup {ServiceInfo(PyDict(76 :> PyBytes(s) @@ 77 :> PyBytes(<<1, 0>>)), PyDict(<<>>), None) :
            s \in SampleSources}

ServiceKeys == {<<"A", "B">>, <<"a", "b">>, <<"A", "b">>}

\* the payload stored under a service key: its first byte tells the key
ServicePayload(k) ==
    IF k = <<"A", "B">> THEN <<1, 171>>
    ELSE IF k = <<"a", "b">> THEN <<128, 171>>
    ELSE <<255, 171>>

\* snapshots that carry only service data, under every subset of ServiceKeys
ServiceInfos ==
    {ServiceInfo(PyDict(<<>>), None, None)}
    \cup {ServiceInfo(PyDict(<<>>), PyDict([k \in ks |-> PyBytes(ServicePayload(k))]), None) :
            ks \in SUBSET ServiceKeys}

Infos == RawInfos \cup ManufacturerInfos \cup ServiceInfos

\* source_key values: missing/None, empty, integer literals in several
\* spellings, strings that are no literal, service keys, and values that are no str
SourceKeyStrs ==
    {<<"7", "6">>, <<"0", "x", "0", "0", "4", "C">>, <<"0", "x", "4", "c">>,
     <<"0", "X", "4", "C">>, <<"0", "7", "6">>, <<"4", "C">>, <<"a", "b", "c">>,
     <<"0", "x">>, <<"7", "7">>, <<"7", "8">>, <<"0", "o", "1", "1", "4">>,
     <<" ", "7", "6", " ">>, <<"-", "7", "6">>, <<"7", "_", "6">>,
     <<"A", "B">>, <<"a", "b">>, <<"A", "b">>, <<"a", "B">>, <<"c", "d">>}

SourceKeys ==
    {None, PyStr(<<>>), PyInt(76), PyInt(0)} \cup {PyStr(k) : k \in SourceKeyStrs}

SourceTypes == {SOURCE_MANUFACTURER, SOURCE_SERVICE, SOURCE_RAW, "other", MISSING}

Rule(source_type, source_key, offset, length, endian, signed, scale) ==
    [source_type |-> source_type, source_key |-> source_key, offset |-> offset,
     length |-> length, endian |-> endian, signed |-> signed, scale |-> scale]

\* rules that vary where the bytes come from
ExtractRules ==
    {Rule(st, k, o, 1, ENDIAN_LITTLE, FALSE, 1) :
        st \in SourceTypes, k \in SourceKeys, o \in {0, 1}}

\* rules that vary how the raw payload is decoded
DecodeRules ==
    {Rule(SOURCE_RAW, None, o, l, e, sg, sc) :
        o \in -1 .. MaxLen, l \in 0 .. MaxLen + 1,
        e \in {ENDIAN_BIG, ENDIAN_LITTLE, MISSING}, sg \in BOOLEAN, sc \in {1, 2, -3}}

Rules == ExtractRules \cup DecodeRules

(***************************************************************************)
(* sensor.py: the per-rule entity                                          *)
(***************************************************************************)
\* BleAdvertDataBaseSensor.__init__ and BleAdvertDataByteSensor.__init__
SensorInit ==
    /\ rule \in Rules
    /\ info = None
    /\ attr_available = FALSE
    /\ attr_native_value = None
    /\ attr_raw_bytes = None
    /\ extracted = Return(None)
    /\ exc = ""

\* BleAdvertDataByteSensor._update_from_service_info(service_info), as called by
\* _async_handle_bluetooth, which then writes the state; an exception leaves
\* the callback before any attribute is assigned
Publish(parsed) ==
    /\ exc' = parsed.exc
    /\ IF parsed.exc # ""
       THEN UNCHANGED <<attr_available, attr_native_value, attr_raw_bytes>>
       ELSE /\ attr_native_value' = parsed.value
            /\ attr_raw_bytes' = parsed.raw_hex
            /\ attr_available' = TRUE

HandleBluetooth(service_info) ==
    /\ info' = service_info
    /\ extracted' = _extract_rule_bytes(service_info, rule)
    /\ Publish(_parse_rule_value(service_info, rule))
    /\ UNCHANGED rule

\* the snapshots drawn for the advertisements that follow the first one
LaterInfos ==
    {ServiceInfo(None, None, None),
     ServiceInfo(PyDict(<<>>), PyDict(<<>>), Advertisement(PyBytes(<<205, 171>>), None)),
     ServiceInfo(PyDict(76 :> PyBytes(<<205, 171>>)), PyDict(<<>>), None),
     ServiceInfo(PyDict(<<>>), PyDict(<<"a", "b">> :> PyBytes(<<205, 171>>)), None)}

\* whether the entity has been handed no snapshot yet
Unseen == "t" \in DOMAIN info

\* an advertisement event for the entity's address: any snapshot first, then
\* the later ones
_async_handle_bluetooth ==
    /\ \E service_info \in (IF Unseen THEN Infos ELSE LaterInfos) :
            HandleBluetooth(service_info)
    /\ UNCHANGED liveVars
    /\ UNCHANGED restVars

(***************************************************************************)
(* binary_sensor.py: the connectivity sensor.  The platform stamps an      *)
(* advertisement with its monotonic clock (service_info.time) and hands    *)
(* the timeout check a wall-clock datetime; epoch + mono is that           *)
(* datetime's timestamp() when the monotonic clock reads mono.             *)
(***************************************************************************)
\* CONNECTIVITY_TIMEOUT.total_seconds()
CONNECTIVITY_TIMEOUT == 30

\* last monotonic clock reading modelled
MaxTime == 40

\* timeout-check state writes counted between two advertisements
MaxWrites == 3

\* wall-clock reading at monotonic time 0: equal clocks, and two readings ahead
BootEpochs == {0, 7, 1000}

\* BleAdvertConnectivitySensor.__init__
LiveInit ==
    /\ attr_is_on = FALSE
    /\ last_seen = None
    /\ mono = 0
    /\ epoch \in BootEpochs
    /\ last_op = "init"
    /\ prev_is_on = FALSE
    /\ prev_last_seen = None
    /\ wrote = FALSE
    /\ offline_writes = 0

\* the timestamp taken only on the way from off to on
UpdateConnectivityWhenOff(timestamp) ==
    /\ last_seen' = IF attr_is_on THEN last_seen ELSE PyFloat(timestamp)
    /\ attr_is_on' = TRUE

\* the state turned on with the timestamp left as it was
UpdateConnectivityStateOnly(timestamp) ==
    /\ last_seen' = last_seen
    /\ attr_is_on' = TRUE

\* BleAdvertConnectivitySensor._update_connectivity(timestamp)
_update_connectivity(timestamp) ==
    /\ last_seen' = PyFloat(timestamp)
    /\ attr_is_on' = TRUE

\* BleAdvertConnectivitySensor._async_handle_bluetooth: an advertisement event,
\* stamped service_info.time = the monotonic clock
ConnectivityHandleBluetooth ==
    /\ _update_connectivity(mono)
    /\ last_op' = "advert"
    /\ prev_is_on' = attr_is_on
    /\ prev_last_seen' = last_seen
    /\ wrote' = TRUE
    /\ offline_writes' = 0
    /\ UNCHANGED <<mono, epoch>>
    /\ UNCHANGED sensorVars
    /\ UNCHANGED restVars

\* the comparison of _async_check_timeout
TimedOut(now_timestamp, seen) == now_timestamp - seen > CONNECTIVITY_TIMEOUT

\* the check of _attr_is_on left out
WritesAlways(is_on) == TRUE

\* whether _async_check_timeout, past the timeout, writes the state
WritesOffline(is_on) == is_on

\* BleAdvertConnectivitySensor._async_check_timeout(_now)
CheckTimeout(now_timestamp) ==
    IF last_seen.t = "None"
    THEN wrote' = FALSE /\ UNCHANGED <<attr_is_on, last_seen, offline_writes>>
    ELSE IF TimedOut(now_timestamp, last_seen.v) /\ WritesOffline(attr_is_on)
    THEN /\ attr_is_on' = FALSE
         /\ wrote' = TRUE
         /\ offline_writes' = offline_writes + 1
         /\ UNCHANGED last_seen
    ELSE wrote' = FALSE /\ UNCHANGED <<attr_is_on, last_seen, offline_writes>>

\* a timer tick: the platform passes the wall-clock time of the tick
_async_check_timeout ==
    /\ offline_writes < MaxWrites
    /\ CheckTimeout(epoch + mono)
    /\ last_op' = "tick"
    /\ prev_is_on' = attr_is_on
    /\ prev_last_seen' = last_seen
    /\ UNCHANGED <<mono, epoch>>
    /\ UNCHANGED sensorVars
    /\ UNCHANGED restVars

\* a second passes
Advance ==
    /\ mono < MaxTime
    /\ mono' = mono + 1
    /\ last_op' = "advance"
    /\ UNCHANGED <<attr_is_on, last_seen, epoch, prev_is_on, prev_last_seen, wrote,
                   offline_writes>>
    /\ UNCHANGED sensorVars
    /\ UNCHANGED restVars

(***************************************************************************)
(* __init__.py and the entities' life: the config entry forwards its       *)
(* PLATFORMS, each platform constructs its entities, an entity added to    *)
(* the platform registers its callbacks and hands their release handles to *)
(* async_on_remove, and a removed entity's handles are run.                *)
(***************************************************************************)
\* PLATFORMS: list[Platform] = [Platform.SENSOR]
PLATFORMS == {"sensor"}

\* the entities the two platform modules construct for one rule
Entities == {"rule_sensor", "connectivity"}

\* the platform module that constructs the entity
PlatformOf(e) == IF e = "connectivity" THEN "binary_sensor" ELSE "sensor"

\* a callback an entity registers: its bluetooth callback or its interval timer
Callback(e, kind) == [entity |-> e, kind |-> kind]

CallbacksOf(e, callbacks) == {c \in callbacks : c.entity = e}

\* the rules an entry is configured with where the life of the entities matters:
\* the raw payload, a manufacturer key that parses, and a key that is no str
LifeRules ==
    {Rule(SOURCE_RAW, None, 0, 1, ENDIAN_LITTLE, FALSE, 1),
     Rule(SOURCE_MANUFACTURER, PyStr(<<"0", "x", "4", "c">>), 0, 2, ENDIAN_BIG, TRUE, 1),
     Rule(SOURCE_MANUFACTURER, PyInt(76), 0, 1, ENDIAN_LITTLE, FALSE, 1)}

\* bluetooth.async_discovered_service_info filtered by the entity's address:
\* the first snapshot known for the address, or none
Discovered == {None} \cup LaterInfos

\* BleAdvertDataBaseSensor.__init__ and BleAdvertDataByteSensor.__init__ for a rule
SensorConstruct(r) ==
    /\ rule' = r
    /\ info' = None
    /\ attr_available' = FALSE
    /\ attr_native_value' = None
    /\ attr_raw_bytes' = None
    /\ extracted' = Return(None)
    /\ exc' = ""

\* BleAdvertConnectivitySensor.__init__
ConnectivityConstruct ==
    /\ attr_is_on' = FALSE
    /\ last_seen' = None
    /\ last_op' = "init"
    /\ prev_is_on' = FALSE
    /\ prev_last_seen' = None
    /\ wrote' = FALSE
    /\ offline_writes' = 0

\* sensor.py async_setup_entry: the entities of the sensor platform
sensor_async_setup_entry == {"rule_sensor"}

\* binary_sensor.py async_setup_entry: the entity of the binary_sensor platform
binary_sensor_async_setup_entry == {"connectivity"}

\* hass.config_entries.async_forward_entry_setups(entry, platforms): the
\* entities the forwarded platforms construct
Forwarded(platforms) ==
    (IF "sensor" \in platforms THEN sensor_async_setup_entry ELSE {})
    \cup (IF "binary_sensor" \in platforms THEN binary_sensor_async_setup_entry ELSE {})

\* __init__.py async_setup_entry
async_setup_entry ==
    /\ entry_state = "not_loaded"
    /\ entry_state' = "loaded"
    /\ life' = [e \in Entities |->
                  IF e \in Forwarded(PLATFORMS) THEN "constructed" ELSE "absent"]
    /\ IF "rule_sensor" \in Forwarded(PLATFORMS)
       THEN SensorConstruct(rule)
       ELSE UNCHANGED sensorVars
    /\ IF "connectivity" \in Forwarded(PLATFORMS)
       THEN ConnectivityConstruct
       ELSE UNCHANGED connVars
    /\ platform_op' = "setup"
    /\ UNCHANGED <<registered, on_remove>>
    /\ UNCHANGED clockVars
    /\ UNCHANGED <<flowVars, deviceVars>>

\* the sensor's seeding from the discovered snapshots
SensorSeed(seed) ==
    IF seed = None THEN UNCHANGED sensorVars ELSE HandleBluetooth(seed)

\* whether the seeding raised, which leaves async_added_to_hass before it registers
SeedRaised(seed) ==
    IF seed = None THEN FALSE ELSE _parse_rule_value(seed, rule).exc # ""

\* the handles BleAdvertDataBaseSensor.async_added_to_hass gives async_on_remove
SensorOnRemove == {Callback("rule_sensor", "bluetooth")}

\* BleAdvertDataBaseSensor.async_added_to_hass
SensorAddedToHass ==
    /\ life["rule_sensor"] = "constructed"
    /\ \E seed \in Discovered :
          /\ SensorSeed(seed)
          /\ IF SeedRaised(seed)
             THEN /\ life' = [life EXCEPT !["rule_sensor"] = "failed"]
                  /\ UNCHANGED <<registered, on_remove>>
             ELSE /\ life' = [life EXCEPT !["rule_sensor"] = "added"]
                  /\ registered' = registered \cup {Callback("rule_sensor", "bluetooth")}
                  /\ on_remove' = on_remove \cup SensorOnRemove
    /\ platform_op' = "add"
    /\ UNCHANGED entry_state
    /\ UNCHANGED liveVars
    /\ UNCHANGED <<flowVars, deviceVars>>

\* the connectivity sensor's seeding: _update_connectivity(info.time) when a
\* snapshot of the address is known
ConnectivitySeed(known) ==
    IF known
    THEN /\ _update_connectivity(mono)
         /\ UNCHANGED offline_writes
    ELSE UNCHANGED <<attr_is_on, last_seen, offline_writes>>

\* the interval timer's handle left out
ConnectivityOnRemoveBluetoothOnly == {Callback("connectivity", "bluetooth")}

\* the handles BleAdvertConnectivitySensor.async_added_to_hass gives async_on_remove
ConnectivityOnRemove ==
    {Callback("connectivity", "bluetooth"), Callback("connectivity", "timer")}

\* BleAdvertConnectivitySensor.async_added_to_hass
ConnectivityAddedToHass ==
    /\ life["connectivity"] = "constructed"
    /\ \E known \in BOOLEAN : ConnectivitySeed(known)
    /\ last_op' = "added"
    /\ prev_is_on' = attr_is_on
    /\ prev_last_seen' = last_seen
    /\ wrote' = FALSE
    /\ life' = [life EXCEPT !["connectivity"] = "added"]
    /\ registered' = registered \cup {Callback("connectivity", "bluetooth"),
                                      Callback("connectivity", "timer")}
    /\ on_remove' = on_remove \cup ConnectivityOnRemove
    /\ platform_op' = "add"
    /\ UNCHANGED entry_state
    /\ UNCHANGED clockVars
    /\ UNCHANGED sensorVars
    /\ UNCHANGED <<flowVars, deviceVars>>

\* the platform adds a constructed entity
AddEntity ==
    \E e \in Entities :
        IF e = "rule_sensor" THEN SensorAddedToHass ELSE ConnectivityAddedToHass

\* the connectivity sensor's part of an advertisement event
ConnectivityObserve ==
    /\ _update_connectivity(mono)
    /\ last_op' = "advert"
    /\ prev_is_on' = attr_is_on
    /\ prev_last_seen' = last_seen
    /\ wrote' = TRUE
    /\ offline_writes' = 0

\* an advertisement for the entry's address: the platform calls every
\* bluetooth callback registered for it
BluetoothEvent ==
    /\ \E service_info \in LaterInfos :
          IF Callback("rule_sensor", "bluetooth") \in registered
          THEN HandleBluetooth(service_info)
          ELSE UNCHANGED sensorVars
    /\ IF Callback("connectivity", "bluetooth") \in registered
       THEN ConnectivityObserve
       ELSE UNCHANGED connVars
    /\ platform_op' = "event"
    /\ UNCHANGED <<entry_state, life, registered, on_remove>>
    /\ UNCHANGED clockVars
    /\ UNCHANGED <<flowVars, deviceVars>>

\* a 5-second interval elapses: the platform calls every registered timer
TimeInterval ==
    /\ IF Callback("connectivity", "timer") \in registered
       THEN /\ CheckTimeout(epoch + mono)
            /\ last_op' = "tick"
            /\ prev_is_on' = attr_is_on
            /\ prev_last_seen' = last_seen
       ELSE UNCHANGED connVars
    /\ platform_op' = "tick"
    /\ UNCHANGED <<entry_state, life, registered, on_remove>>
    /\ UNCHANGED clockVars
    /\ UNCHANGED sensorVars
    /\ UNCHANGED <<flowVars, deviceVars>>

\* the entities e of es leave the platform: the handles they gave
\* async_on_remove are run, which unregisters those callbacks
Release(es) ==
    /\ life' = [e \in Entities |-> IF e \in es THEN "removed" ELSE life[e]]
    /\ registered' = registered \ {c \in on_remove : c.entity \in es}
    /\ on_remove' = {c \in on_remove : c.entity \notin es}

\* an entity is removed
RemoveEntity ==
    /\ \E e \in Entities :
          /\ life[e] = "added"
          /\ Release({e})
    /\ platform_op' = "remove"
    /\ UNCHANGED entry_state
    /\ UNCHANGED liveVars
    /\ UNCHANGED sensorVars
    /\ UNCHANGED <<flowVars, deviceVars>>

\* __init__.py async_unload_entry: async_unload_platforms(entry, PLATFORMS)
async_unload_entry ==
    /\ entry_state = "loaded"
    /\ \A e \in Entities : life[e] # "constructed"
    /\ entry_state' = "not_loaded"
    /\ Release({e \in Forwarded(PLATFORMS) : life[e] = "added"})
    /\ platform_op' = "unload"
    /\ UNCHANGED liveVars
    /\ UNCHANGED sensorVars
    /\ UNCHANGED <<flowVars, deviceVars>>

(***************************************************************************)
(* config_flow.py: the options flow.  A handler call is one step of the    *)
(* event loop: no handler suspends between reading self._rules and         *)
(* returning its result, and the entry's options are replaced by the data  *)
(* of a create_entry result.  Two flows are open on the same entry.        *)
(***************************************************************************)
\* number of ids uuid4 returns
MaxUuid == 3

Flows == {"f1", "f2"}

\* CONF_RULE_ID absent from self.context
NoRuleId == 0

\* user_input is None
NoInput == [none |-> TRUE]

UserInput(name, source_type, source_key, offset, length, endian, signed, scale, unit) ==
    [name |-> name, source_type |-> source_type, source_key |-> source_key,
     offset |-> offset, length |-> length, endian |-> endian, signed |-> signed,
     scale |-> scale, unit |-> unit]

\* what a user types into a rule form: a manufacturer rule with a hexadecimal
\* key and a unit, one with key and unit left empty, one whose key is no
\* integer literal, and two forms with an offset or a length out of range
FormInputs ==
    {UserInput("temp", SOURCE_MANUFACTURER, PyStr(<<"0", "x", "4", "c">>), 0, 2,
               ENDIAN_LITTLE, FALSE, 1, PyStr(<<"C">>)),
     UserInput("hum", SOURCE_MANUFACTURER, PyStr(<<>>), 1, 1, ENDIAN_BIG, TRUE, 2,
               PyStr(<<>>)),
     UserInput("key", SOURCE_MANUFACTURER, PyStr(<<"a", "b", "c">>), 0, 1,
               ENDIAN_LITTLE, FALSE, 1, PyStr(<<>>)),
     UserInput("temp", SOURCE_RAW, PyStr(<<>>), -1, 2, ENDIAN_LITTLE, FALSE, 1,
               PyStr(<<"C">>)),
     UserInput("temp", SOURCE_RAW, PyStr(<<>>), 0, 0, ENDIAN_LITTLE, FALSE, 1,
               PyStr(<<"C">>))}

\* the schema of _build_rule_schema: what the form accepts
SchemaAccepts(user_input) ==
    /\ user_input.source_type \in {SOURCE_MANUFACTURER, SOURCE_SERVICE, SOURCE_RAW}
    /\ user_input.offset >= 0
    /\ user_input.length >= 1
    /\ user_input.endian \in {ENDIAN_BIG, ENDIAN_LITTLE}

\* _build_rule_schema(rule): rule.get is called on the rule it is given
_build_rule_schema(has_rule) == IF has_rule THEN "" ELSE "AttributeError"

\* the id returned last is returned again
uuid4_repeated == IF uuids = 0 THEN 1 ELSE uuids

\* uuid4().hex: an id that was never returned before
uuid4 == uuids + 1

\* the rule dict the add and edit handlers build from the submitted form
RuleDict(rule_id, user_input) ==
    [id |-> rule_id,
     name |-> user_input.name,
     source_type |-> user_input.source_type,
     source_key |-> Or(user_input.source_key, None),
     offset |-> user_input.offset,
     length |-> user_input.length,
     endian |-> user_input.endian,
     signed |-> user_input.signed,
     scale |-> user_input.scale,
     unit |-> Or(user_input.unit, None)]

\* the options read from the entry's data, where no rules are kept
RulesFromData == <<>>

\* BleAdvertDataOptionsFlow._rules: the rule list of the entry's options
_rules == options_rules

\* the new rule put first
RulesWithFirst(rules, new_rule) == <<new_rule>> \o rules

\* [*self._rules, rule]
RulesWith(rules, new_rule) == Append(rules, new_rule)

\* the updated rule moved to the end of the list
RulesMovedToEnd(rules, rule_id, updated_rule) ==
    Append(SelectSeq(rules, LAMBDA r : r.id # rule_id), updated_rule)

\* [updated_rule if r.get(CONF_RULE_ID) == rule_id else r for r in self._rules]
RulesReplaced(rules, rule_id, updated_rule) ==
    [i \in 1 .. Len(rules) |-> IF rules[i].id = rule_id THEN updated_rule ELSE rules[i]]

\* [rule for rule in self._rules if rule.get(CONF_RULE_ID) != rule_id]
RulesWithout(rules, rule_id) == SelectSeq(rules, LAMBDA r : r.id # rule_id)

\* next((r for r in self._rules if r.get(CONF_RULE_ID) == rule_id), None)
HasRule(rules, rule_id) == \E i \in 1 .. Len(rules) : rules[i].id = rule_id

\* the unique id BleAdvertDataByteSensor.__init__ registers the rule's sensor
\* under: f"{formatted_address}_rule_{rule_id}", rule_id being the rule's id
\* or f"rule_{index}"
SensorUniqueId(r, index) ==
    IF r.id = NoRuleId THEN <<"_rule_rule_", index>> ELSE <<"_rule_", r.id>>

\* the unique id _cleanup_rule_entity looks up: f"{formatted_address}_rule_{rule_id}"
CleanupUniqueId(rule_id) == <<"_rule_", rule_id>>

\* the entry reloaded after its options changed: async_setup_entry of sensor.py
\* registers one sensor per rule
Reloaded(entities, rules) ==
    entities \cup {SensorUniqueId(rules[i], i - 1) : i \in 1 .. Len(rules)}

Effect(effect, unique_id) == [effect |-> effect, unique_id |-> unique_id]

\* the list committed before the cleanup is requested
RemoveEffectsCommitFirst(rule_id) ==
    <<Effect("commit", <<>>), Effect("cleanup", CleanupUniqueId(rule_id))>>

\* async_step_remove_rule: the cleanup is awaited, then create_entry is returned
RemoveEffects(rule_id) ==
    <<Effect("cleanup", CleanupUniqueId(rule_id)), Effect("commit", <<>>)>>

\* what a handler call was and returned
Called(op, f, rule_id, user_input, result) ==
    [op |-> op, flow |-> f, rule_id |-> rule_id, user_input |-> user_input,
     result |-> result, overtaken |-> overtaken[f]]

\* a handler of flow f returns a menu or a form built from the list as it is:
\* nothing is stored
NothingStored(f) ==
    /\ UNCHANGED <<options_rules, uuids, registry>>
    /\ flow_log' = <<>>
    /\ overtaken' = [overtaken EXCEPT ![f] = FALSE]

\* async_create_entry(data={CONF_RULES: rules}): the options are replaced, the
\* flow ends, and the update listener reloads the entry
Commit(f, rules, entities) ==
    /\ options_rules' = rules
    /\ registry' = Reloaded(entities, rules)
    /\ context' = [context EXCEPT ![f] = NoRuleId]
    /\ overtaken' = [g \in Flows |-> g # f]

\* edit_rule and remove_rule offered whatever the rule list holds
MenuAllSteps == "menu:add_rule,edit_rule,remove_rule"

\* BleAdvertDataOptionsFlow.async_step_init
Menu == IF Len(_rules) > 0 THEN "menu:add_rule,edit_rule,remove_rule" ELSE "menu:add_rule"

async_step_init ==
    /\ \E f \in Flows :
          /\ flow_last' = Called("init", f, NoRuleId, NoInput, Menu)
          /\ NothingStored(f)
          /\ UNCHANGED context
    /\ UNCHANGED entityVars

\* BleAdvertDataOptionsFlow.async_step_add_rule(None): the form is built
AddRuleForm(f) ==
    /\ flow_last' = Called("add_rule", f, NoRuleId, NoInput,
                           IF _build_rule_schema(FALSE) = ""
                           THEN "form:add_rule" ELSE _build_rule_schema(FALSE))
    /\ NothingStored(f)
    /\ UNCHANGED context

\* BleAdvertDataOptionsFlow.async_step_add_rule(user_input)
AddRule(f, user_input) ==
    /\ uuids < MaxUuid
    /\ uuids' = uuids + 1
    /\ Commit(f, RulesWith(_rules, RuleDict(uuid4, user_input)), registry)
    /\ flow_log' = <<Effect("commit", <<>>)>>
    /\ flow_last' = Called("add_rule", f, uuid4, user_input, "create_entry")

\* a form the schema does not accept never reaches the handler
Rejected(op, f, user_input) ==
    /\ flow_last' = Called(op, f, NoRuleId, user_input, "invalid")
    /\ UNCHANGED <<options_rules, uuids, registry, overtaken, context>>
    /\ flow_log' = <<>>

async_step_add_rule ==
    /\ \E f \in Flows :
          \/ AddRuleForm(f)
          \/ \E user_input \in FormInputs :
                IF SchemaAccepts(user_input)
                THEN AddRule(f, user_input)
                ELSE Rejected("add_rule", f, user_input)
    /\ UNCHANGED entityVars

\* the ids a select form can submit: every id ever given to a rule
RuleIds == 1 .. uuids

\* async_step_edit_rule, second step: the rule of self.context is looked up
EditSelected(f, rule_id, user_input) ==
    IF ~HasRule(_rules, rule_id)
    THEN /\ flow_last' = Called("edit_rule", f, rule_id, user_input, Menu)
         /\ NothingStored(f)
    ELSE IF user_input = NoInput
    THEN /\ flow_last' = Called("edit_rule", f, rule_id, user_input,
                                IF _build_rule_schema(TRUE) = ""
                                THEN "form:edit_rule" ELSE _build_rule_schema(TRUE))
         /\ NothingStored(f)
    ELSE /\ options_rules' = RulesReplaced(_rules, rule_id, RuleDict(rule_id, user_input))
         /\ registry' = Reloaded(registry, options_rules')
         /\ overtaken' = [g \in Flows |-> g # f]
         /\ flow_log' = <<Effect("commit", <<>>)>>
         /\ flow_last' = Called("edit_rule", f, rule_id, user_input, "create_entry")
         /\ UNCHANGED uuids

\* BleAdvertDataOptionsFlow.async_step_edit_rule
EditRule(f) ==
    IF Len(_rules) = 0
    THEN /\ \/ \E rule_id \in {NoRuleId} \cup RuleIds :
                  flow_last' = Called("edit_rule", f, rule_id, NoInput, Menu)
            \/ /\ context[f] # NoRuleId
               /\ \E user_input \in {u \in FormInputs : SchemaAccepts(u)} :
                     flow_last' = Called("edit_rule", f, context[f], user_input, Menu)
         /\ NothingStored(f)
         /\ UNCHANGED context
    ELSE IF context[f] = NoRuleId
    THEN \/ /\ flow_last' = Called("edit_rule", f, NoRuleId, NoInput, "form:edit_select")
            /\ NothingStored(f)
            /\ UNCHANGED context
         \/ \E rule_id \in RuleIds :
               /\ context' = [context EXCEPT ![f] = rule_id]
               /\ EditSelected(f, rule_id, NoInput)
    ELSE \/ /\ EditSelected(f, context[f], NoInput)
            /\ UNCHANGED context
         \/ \E user_input \in FormInputs :
               IF SchemaAccepts(user_input)
               THEN /\ EditSelected(f, context[f], user_input)
                    /\ context' = [context EXCEPT ![f] =
                                      IF HasRule(_rules, context[f])
                                      THEN NoRuleId ELSE context[f]]
               ELSE Rejected("edit_rule", f, user_input)

async_step_edit_rule ==
    /\ \E f \in Flows : EditRule(f)
    /\ UNCHANGED entityVars

\* BleAdvertDataOptionsFlow._cleanup_rule_entity: every registry entry with
\* the rule's unique id is removed
_cleanup_rule_entity(rule_id) == registry \ {CleanupUniqueId(rule_id)}

\* BleAdvertDataOptionsFlow.async_step_remove_rule
RemoveRule(f) ==
    IF Len(_rules) = 0
    THEN /\ \E rule_id \in {NoRuleId} \cup RuleIds :
               flow_last' = Called("remove_rule", f, rule_id, NoInput, Menu)
         /\ NothingStored(f)
         /\ UNCHANGED context
    ELSE \/ /\ flow_last' = Called("remove_rule", f, NoRuleId, NoInput, "form:remove_rule")
            /\ NothingStored(f)
            /\ UNCHANGED context
         \/ \E rule_id \in RuleIds :
               /\ Commit(f, RulesWithout(_rules, rule_id), _cleanup_rule_entity(rule_id))
               /\ flow_log' = RemoveEffects(rule_id)
               /\ flow_last' = Called("remove_rule", f, rule_id, NoInput, "create_entry")
               /\ UNCHANGED uuids

async_step_remove_rule ==
    /\ \E f \in Flows : RemoveRule(f)
    /\ UNCHANGED entityVars

(***************************************************************************)
(* The entities of two config entries side by side.  Every entry has its   *)
(* own address; sensor.py constructs one advertisement sensor and one      *)
(* sensor per rule for it, binary_sensor.py one connectivity sensor.  An   *)
(* entity's attributes are the fields of its own record, and the scanner   *)
(* keeps the last snapshot of every address it has heard.                  *)
(***************************************************************************)
Addresses == {"A", "B"}

\* an entity of the entry for an address: its class and, for a rule sensor,
\* the index of its rule
Entity(address, cls, index) == [address |-> address, cls |-> cls, index |-> index]

\* a BluetoothServiceInfoBleak: a payload with the address, the rssi and the
\* monotonic time of the advertisement
Snapshot(address, time, rssi, service_info) ==
    [address |-> address, time |-> time, rssi |-> rssi,
     manufacturer_data |-> service_info.manufacturer_data,
     service_data |-> service_info.service_data,
     advertisement |-> service_info.advertisement]

\* the advertisements drawn for an address at a time: one with manufacturer
\* data of two bytes and one with no data at all
DeviceSnapshots(address, time) ==
    {Snapshot(address, time, -60,
              ServiceInfo(PyDict(76 :> PyBytes(<<205, 171>>)), PyDict(<<>>), None)),
     Snapshot(address, time, -80, ServiceInfo(None, None, None))}

\* the rule the options flow stores for the accepted form of a name
StoredRule(rule_id, name) ==
    RuleDict(rule_id, CHOOSE u \in FormInputs : SchemaAccepts(u) /\ u.name = name)

\* entry.options[CONF_RULES] of the entry for address "A": a rule that
\* decodes two bytes next to a rule that never finds data, in either order
DeviceRuleLists ==
    {<<StoredRule(1, "hum"), StoredRule(2, "temp")>>,
     <<StoredRule(1, "temp"), StoredRule(2, "key")>>}

\* entry.options[CONF_RULES] of the entry for address "B"
OtherRules == <<StoredRule(3, "temp")>>

\* BleAdvertDataSensor._build_attributes(service_info): the attributes taken
\* from the snapshot
_build_attributes(service_info) ==
    IF service_info = None
    THEN [rssi |-> None, time |-> None]
    ELSE [rssi |-> PyInt(service_info.rssi), time |-> PyFloat(service_info.time)]

\* BleAdvertDataBaseSensor.__init__ and BleAdvertDataSensor.__init__
BleAdvertDataSensor ==
    [life |-> "constructed", available |-> FALSE, native_value |-> None,
     attributes |-> _build_attributes(None)]

\* BleAdvertDataBaseSensor.__init__ and BleAdvertDataByteSensor.__init__
BleAdvertDataByteSensor(r) ==
    [life |-> "constructed", rule |-> r, available |-> FALSE, native_value |-> None,
     raw_bytes |-> None]

\* BleAdvertConnectivitySensor.__init__
BleAdvertConnectivitySensor ==
    [life |-> "constructed", is_on |-> FALSE, last_seen |-> None]

\* sensor.py async_setup_entry: [BleAdvertDataSensor(entry)] extended with
\* BleAdvertDataByteSensor(entry, rule, index) for index, rule in enumerate(rules)
SensorPlatform(address, rules) ==
    [e \in {Entity(address, "advertisement", 0)}
           \cup {Entity(address, "rule", i - 1) : i \in 1 .. Len(rules)} |->
        IF e.cls = "advertisement"
        THEN BleAdvertDataSensor
        ELSE BleAdvertDataByteSensor(rules[e.index + 1])]

\* binary_sensor.py async_setup_entry: [BleAdvertConnectivitySensor(entry)]
BinarySensorPlatform(address) ==
    [e \in {Entity(address, "connectivity", 0)} |-> BleAdvertConnectivitySensor]

\* the entities both platform modules construct for an entry
EntryEntities(address, rules) ==
    SensorPlatform(address, rules) @@ BinarySensorPlatform(address)

\* BleAdvertDataSensor._update_from_service_info(service_info)
AdvertisementUpdate(self, service_info) ==
    [self EXCEPT !.native_value = PyInt(service_info.rssi),
                 !.attributes = _build_attributes(service_info),
                 !.available = TRUE]

\* the sensor available only with a decoded value
ByteSensorUpdateWhenDecoded(self, parsed) ==
    IF parsed.exc # "" THEN self
    ELSE [self EXCEPT !.native_value = parsed.value,
                      !.raw_bytes = parsed.raw_hex,
                      !.available = (parsed.value # None)]

\* BleAdvertDataByteSensor._update_from_service_info from the parsed tuple
\* on; an exception leaves before any attribute is assigned
ByteSensorUpdate(self, parsed) ==
    IF parsed.exc # "" THEN self
    ELSE [self EXCEPT !.native_value = parsed.value,
                      !.raw_bytes = parsed.raw_hex,
                      !.available = TRUE]

\* BleAdvertConnectivitySensor._update_connectivity(timestamp)
ConnectivityUpdate(self, timestamp) ==
    [self EXCEPT !.last_seen = PyFloat(timestamp), !.is_on = TRUE]

\* what an entity does with a snapshot, in async_added_to_hass and in
\* _async_handle_bluetooth: the sensors call _update_from_service_info(info),
\* the connectivity sensor _update_connectivity(info.time)
Observe(self, cls, service_info) ==
    IF cls = "advertisement" THEN AdvertisementUpdate(self, service_info)
    ELSE IF cls = "rule"
    THEN ByteSensorUpdate(self, _parse_rule_value(service_info, self.rule))
    ELSE ConnectivityUpdate(self, service_info.time)

\* BleAdvertConnectivitySensor._async_check_timeout(_now)
ConnectivityCheck(self, now_timestamp) ==
    IF self.last_seen.t = "None" THEN self
    ELSE IF TimedOut(now_timestamp, self.last_seen.v) /\ WritesOffline(self.is_on)
    THEN [self EXCEPT !.is_on = FALSE]
    ELSE self

\* the scanner keeps one snapshot per address: an advertisement replaces the
\* snapshot of its address
Discover(infos, service_info) ==
    IF \E i \in DOMAIN infos : infos[i].address = service_info.address
    THEN [i \in DOMAIN infos |->
            IF infos[i].address = service_info.address THEN service_info ELSE infos[i]]
    ELSE Append(infos, service_info)

\* the first snapshot taken whatever its address
FirstDiscoveredAnyAddress(infos, address) ==
    IF Len(infos) = 0 THEN None ELSE infos[1]

\* for info in async_discovered_service_info(hass):
\*     if info.address == self._address: ...; break
FirstDiscovered(infos, address) ==
    IF \A i \in DOMAIN infos : infos[i].address # address THEN None
    ELSE infos[CHOOSE i \in DOMAIN infos :
                  /\ infos[i].address = address
                  /\ \A j \in 1 .. i - 1 : infos[j].address # address]

\* the seeding of async_added_to_hass from the snapshot found, if any
Seeded(self, cls, first) ==
    IF first = None THEN self ELSE Observe(self, cls, first)

\* the handles async_added_to_hass gives async_on_remove: the bluetooth
\* callback and, for the connectivity sensor, the interval timer
HandlesOf(e) ==
    IF e.cls = "connectivity"
    THEN {Callback(e, "bluetooth"), Callback(e, "timer")}
    ELSE {Callback(e, "bluetooth")}

\* the state of the single entities and of the options flow, untouched here
singleVars == <<sensorVars, connVars, epoch, lifeVars, flowVars>>

\* BleAdvertDataBaseSensor.async_added_to_hass and
\* BleAdvertConnectivitySensor.async_added_to_hass of a constructed entity
async_added_to_hass ==
    /\ \E e \in DOMAIN objects :
          /\ objects[e].life = "constructed"
          /\ objects' = [objects EXCEPT ![e] =
                            [Seeded(objects[e], e.cls, FirstDiscovered(service_infos, e.address))
                                EXCEPT !.life = "added"]]
          /\ subscribed' = subscribed \cup HandlesOf(e)
          /\ device_last' = [op |-> "add", address |-> e.address]
    /\ UNCHANGED <<service_infos, mono>>
    /\ UNCHANGED singleVars

\* every bluetooth callback called, whatever the address of its matcher
MatchesAnyAddress(callback, address) == callback.kind = "bluetooth"

\* BluetoothCallbackMatcher(address=self._address)
Matches(callback, address) ==
    callback.kind = "bluetooth" /\ callback.entity.address = address

\* _async_handle_bluetooth of every entity whose matcher matches the advertisement
Delivered(service_info) ==
    [e \in DOMAIN objects |->
        IF \E c \in subscribed : c.entity = e /\ Matches(c, service_info.address)
        THEN Observe(objects[e], e.cls, service_info)
        ELSE objects[e]]

\* the scanner hears an advertisement of an address, stamped with the
\* monotonic clock, and calls the matching callbacks
AdvertisementReceived ==
    /\ \E address \in Addresses :
          \E service_info \in DeviceSnapshots(address, mono) :
              /\ service_infos' = Discover(service_infos, service_info)
              /\ objects' = Delivered(service_info)
              /\ device_last' = [op |-> "event", address |-> address]
    /\ UNCHANGED <<subscribed, mono>>
    /\ UNCHANGED singleVars

\* the interval timer of a connectivity sensor fires: _async_check_timeout
\* with the wall-clock time
IntervalElapsed ==
    /\ \E c \in subscribed :
          /\ c.kind = "timer"
          /\ objects' = [objects EXCEPT ![c.entity] =
                            ConnectivityCheck(objects[c.entity], epoch + mono)]
          /\ device_last' = [op |-> "tick", address |-> c.entity.address]
    /\ UNCHANGED <<service_infos, subscribed, mono>>
    /\ UNCHANGED singleVars

\* more than the timeout passes with no advertisement
TimeoutPasses ==
    /\ mono + CONNECTIVITY_TIMEOUT + 1 <= MaxTime
    /\ mono' = mono + CONNECTIVITY_TIMEOUT + 1
    /\ device_last' = [op |-> "elapse", address |-> ""]
    /\ UNCHANGED <<objects, service_infos, subscribed>>
    /\ UNCHANGED singleVars

\* the entity async_setup_entry constructs in place of a removed one
Reconstructed(e, self) ==
    IF e.cls = "rule" THEN BleAdvertDataByteSensor(self.rule)
    ELSE IF e.cls = "advertisement" THEN BleAdvertDataSensor
    ELSE BleAdvertConnectivitySensor

\* __init__.py _async_update_listener: the entry of an address is reloaded;
\* its entities are removed, which runs their async_on_remove handles, and
\* the platforms construct new ones
_async_update_listener ==
    /\ \E address \in Addresses :
          /\ \A e \in DOMAIN objects : e.address = address => objects[e].life = "added"
          /\ objects' = [e \in DOMAIN objects |->
                            IF e.address = address
                            THEN Reconstructed(e, objects[e]) ELSE objects[e]]
          /\ subscribed' = {c \in subscribed : c.entity.address # address}
          /\ device_last' = [op |-> "reload", address |-> address]
    /\ UNCHANGED <<service_infos, mono>>
    /\ UNCHANGED singleVars

(***************************************************************************)
(* Specifications                                                          *)
(***************************************************************************)
\* the connectivity sensor as constructed, untouched under Spec
LiveIdle ==
    /\ attr_is_on = FALSE
    /\ last_seen = None
    /\ mono = 0
    /\ epoch = 0
    /\ last_op = "init"
    /\ prev_is_on = FALSE
    /\ prev_last_seen = None
    /\ wrote = FALSE
    /\ offline_writes = 0

\* a per-rule sensor nobody feeds, untouched under LiveSpec
SensorIdle ==
    /\ rule = Rule(SOURCE_RAW, None, 0, 1, ENDIAN_LITTLE, FALSE, 1)
    /\ info = None
    /\ attr_available = FALSE
    /\ attr_native_value = None
    /\ attr_raw_bytes = None
    /\ extracted = Return(None)
    /\ exc = ""

\* the entry set up and its entities added, as Spec and LiveSpec take them
LifeIdle ==
    /\ entry_state = "loaded"
    /\ life = [e \in Entities |-> "added"]
    /\ registered = SensorOnRemove \cup ConnectivityOnRemove
    /\ on_remove = SensorOnRemove \cup ConnectivityOnRemove
    /\ platform_op = "add"

\* an entry with no rules and no options flow run yet
FlowInit ==
    /\ options_rules = <<>>
    /\ context = [f \in Flows |-> NoRuleId]
    /\ uuids = 0
    /\ registry = {}
    /\ flow_log = <<>>
    /\ overtaken = [f \in Flows |-> FALSE]
    /\ flow_last = [op |-> "none", flow |-> "f1", rule_id |-> NoRuleId, user_input |-> NoInput,
                    result |-> "", overtaken |-> FALSE]

\* no second entry: the entities above are the only ones
DeviceIdle ==
    /\ objects = <<>>
    /\ service_infos = <<>>
    /\ subscribed = {}
    /\ device_last = [op |-> "none", address |-> ""]

RestIdle == LifeIdle /\ FlowInit /\ DeviceIdle

Init == SensorInit /\ LiveIdle /\ RestIdle

Next == _async_handle_bluetooth

Spec == Init /\ [][Next]_vars

LiveStart == LiveInit /\ SensorIdle /\ RestIdle

LiveNext ==
    \/ ConnectivityHandleBluetooth
    \/ _async_check_timeout
    \/ Advance

LiveSpec == LiveStart /\ [][LiveNext]_vars

\* one entity of each class constructed for an entry, not yet added
TeardownInit ==
    /\ rule \in LifeRules
    /\ info = None
    /\ attr_available = FALSE
    /\ attr_native_value = None
    /\ attr_raw_bytes = None
    /\ extracted = Return(None)
    /\ exc = ""
    /\ LiveInit
    /\ entry_state = "loaded"
    /\ life = [e \in Entities |-> "constructed"]
    /\ registered = {}
    /\ on_remove = {}
    /\ platform_op = "setup"
    /\ FlowInit
    /\ DeviceIdle

TeardownNext ==
    \/ SensorAddedToHass
    \/ ConnectivityAddedToHass
    \/ BluetoothEvent
    \/ TimeInterval
    \/ RemoveEntity

TeardownSpec == TeardownInit /\ [][TeardownNext]_vars

\* a config entry with one rule, before it is set up
EntryInit ==
    /\ rule \in LifeRules
    /\ info = None
    /\ attr_available = FALSE
    /\ attr_native_value = None
    /\ attr_raw_bytes = None
    /\ extracted = Return(None)
    /\ exc = ""
    /\ LiveInit
    /\ entry_state = "not_loaded"
    /\ life = [e \in Entities |-> "absent"]
    /\ registered = {}
    /\ on_remove = {}
    /\ platform_op = "init"
    /\ FlowInit
    /\ DeviceIdle

EntryNext ==
    \/ async_setup_entry
    \/ AddEntity
    \/ BluetoothEvent
    \/ TimeInterval
    \/ async_unload_entry

EntrySpec == EntryInit /\ [][EntryNext]_vars

FlowStart == FlowInit /\ SensorIdle /\ LiveIdle /\ LifeIdle /\ DeviceIdle

FlowNext ==
    \/ async_step_init
    \/ async_step_add_rule
    \/ async_step_edit_rule
    \/ async_step_remove_rule

FlowSpec == FlowStart /\ [][FlowNext]_vars

\* the entities of the entries for "A" and "B" constructed, none added yet,
\* and no advertisement heard
DeviceInit ==
    /\ \E rules \in DeviceRuleLists :
          objects = EntryEntities("A", rules) @@ EntryEntities("B", OtherRules)
    /\ service_infos = <<>>
    /\ subscribed = {}
    /\ device_last = [op |-> "setup", address |-> ""]

DeviceStart == DeviceInit /\ SensorIdle /\ LiveIdle /\ LifeIdle /\ FlowInit

DeviceNext ==
    \/ async_added_to_hass
    \/ AdvertisementReceived
    \/ IntervalElapsed
    \/ TimeoutPasses
    \/ _async_update_listener

DeviceSpec == DeviceStart /\ [][DeviceNext]_vars

(***************************************************************************)
(* Properties of the per-rule sensor (Spec)                                *)
(***************************************************************************)
\* the last callback selected a non-empty source
HasSource ==
    /\ ~Unseen
    /\ extracted.exc = ""
    /\ extracted.v.t = "bytes"
    /\ Len(extracted.v.v) > 0

SourceBytes == extracted.v.v

ValidShape == rule.offset >= 0 /\ rule.length >= 1

InRange == rule.offset + rule.length <= Len(SourceBytes)

\* source[offset .. offset + length)
Chunk == [i \in 1 .. rule.length |-> SourceBytes[rule.offset + i]]

Significance(i, n, little) == IF little THEN i - 1 ELSE n - i

RECURSIVE PositionalSum(_, _, _)
PositionalSum(chunk, i, little) ==
    IF i > Len(chunk) THEN 0
    ELSE chunk[i] * Pow(256, Significance(i, Len(chunk), little))
         + PositionalSum(chunk, i + 1, little)

MostSignificant(chunk, little) == IF little THEN chunk[Len(chunk)] ELSE chunk[1]

\* the integer of the chunk: two's complement when signed
ExpectedInteger(chunk, little, signed) ==
    PositionalSum(chunk, 1, little)
    - (IF signed /\ MostSignificant(chunk, little) >= 128 THEN Pow(256, Len(chunk)) ELSE 0)

\* C2: when decode succeeds the value is the integer of the chunk times scale,
\* read least-significant byte first for endian = little and most-significant
\* byte first otherwise, two's complement only when signed: [0x01,0x00] is 1
\* little and 256 big, [0xFF] is -1 signed and 255 unsigned, and scale 2 gives
\* twice the scale-1 value.
C2_ValueIsScaledInteger ==
    (HasSource /\ ValidShape /\ InRange) =>
        /\ attr_native_value.t = "float"
        /\ attr_native_value.v
             = ExpectedInteger(Chunk, rule.endian = ENDIAN_LITTLE, rule.signed) * rule.scale
        /\ (Chunk = <<1, 0>> /\ ~rule.signed /\ rule.scale = 1) =>
              attr_native_value.v = (IF rule.endian = ENDIAN_LITTLE THEN 1 ELSE 256)
        /\ (Chunk = <<255>> /\ rule.scale = 1) =>
              attr_native_value.v = (IF rule.signed THEN -1 ELSE 255)
        /\ rule.scale = 2 =>
              attr_native_value.v
                = 2 * _parse_rule_value(info, [rule EXCEPT !.scale = 1]).value.v

\* a signed little-endian two-byte chunk with the sign bit in its last byte, scaled by 2
C2_Witness ==
    /\ HasSource /\ ValidShape /\ InRange
    /\ Chunk = <<0, 128>>
    /\ rule.endian = ENDIAN_LITTLE
    /\ rule.signed
    /\ rule.scale = 2
    /\ attr_native_value.v = -65536

LowerHexValue ==
    "0" :> 0 @@ "1" :> 1 @@ "2" :> 2 @@ "3" :> 3 @@ "4" :> 4 @@ "5" :> 5 @@ "6" :> 6
    @@ "7" :> 7 @@ "8" :> 8 @@ "9" :> 9 @@ "a" :> 10 @@ "b" :> 11 @@ "c" :> 12
    @@ "d" :> 13 @@ "e" :> 14 @@ "f" :> 15

\* text holds two lowercase hex digits per byte of bytes, in order
IsLowerHexOf(text, bytes) ==
    /\ Len(text) = 2 * Len(bytes)
    /\ \A i \in 1 .. Len(bytes) :
          /\ text[2 * i - 1] \in DOMAIN LowerHexValue
          /\ text[2 * i] \in DOMAIN LowerHexValue
          /\ 16 * LowerHexValue[text[2 * i - 1]] + LowerHexValue[text[2 * i]] = bytes[i]

\* C3: when decode succeeds raw_hex is the lowercase hexadecimal encoding of
\* exactly the bytes source[offset .. offset + length) in source order, the
\* same for every choice of signed, scale and endian.
C3_RawHexOfChunk ==
    (HasSource /\ ValidShape /\ InRange) =>
        /\ attr_raw_bytes.t = "str"
        /\ IsLowerHexOf(attr_raw_bytes.v, Chunk)
        /\ Chunk = <<171, 205>> => attr_raw_bytes.v = <<"a", "b", "c", "d">>
        /\ \A e \in {ENDIAN_BIG, ENDIAN_LITTLE, MISSING}, sg \in BOOLEAN, sc \in {1, 2, -3} :
              _parse_rule_value(info, [rule EXCEPT !.endian = e, !.signed = sg,
                                                   !.scale = sc]).raw_hex.v
                = attr_raw_bytes.v

\* 0xAB 0xCD read little-endian, signed and scaled: raw_hex is still "abcd"
C3_Witness ==
    /\ HasSource /\ ValidShape /\ InRange
    /\ Chunk = <<171, 205>>
    /\ rule.endian = ENDIAN_LITTLE
    /\ rule.signed
    /\ rule.scale = -3
    /\ attr_raw_bytes.v = <<"a", "b", "c", "d">>

\* what int(text, 0) makes of the source_key strings drawn; the others raise ValueError
LiteralIds ==
    <<"7", "6">> :> 76 @@ <<"0", "x", "0", "0", "4", "C">> :> 76
    @@ <<"0", "x", "4", "c">> :> 76 @@ <<"0", "X", "4", "C">> :> 76
    @@ <<"7", "7">> :> 77 @@ <<"7", "8">> :> 78 @@ <<"0", "o", "1", "1", "4">> :> 76
    @@ <<" ", "7", "6", " ">> :> 76 @@ <<"-", "7", "6">> :> (0 - 76)
    @@ <<"7", "_", "6">> :> 76

\* the keys of a snapshot's mapping (none when the mapping is None)
KeysOf(mapping) == IF mapping.t = "dict" THEN DOMAIN mapping.v ELSE {}

\* C4: for a manufacturer_data rule whose source_key is a string or missing,
\* the key is parsed as an integer literal ("0x004C" and "76" are both company
\* id 76) and manufacturer_data[that id] is returned; the result is None when
\* the key is empty, does not parse, or the id is no key of manufacturer_data.
C4_ManufacturerLookup ==
    (~Unseen /\ rule.source_type = SOURCE_MANUFACTURER
        /\ rule.source_key.t \in {"None", "str"}) =>
        /\ extracted.exc = ""
        /\ IF /\ rule.source_key.t = "str"
              /\ rule.source_key.v \in DOMAIN LiteralIds
              /\ LiteralIds[rule.source_key.v] \in KeysOf(info.manufacturer_data)
           THEN /\ extracted.v.t = "bytes"
                /\ extracted.v.v
                     = info.manufacturer_data.v[LiteralIds[rule.source_key.v]].v
           ELSE extracted.v.t = "None"

\* "0x004C" selects the payload of company id 76 where 77 is present too
C4_Witness ==
    /\ ~Unseen
    /\ rule.source_type = SOURCE_MANUFACTURER
    /\ rule.source_key.t = "str"
    /\ rule.source_key.v = <<"0", "x", "0", "0", "4", "C">>
    /\ KeysOf(info.manufacturer_data) = {76, 77}
    /\ extracted.v.t = "bytes"
    /\ extracted.v.v = <<171, 205>>

\* the spellings of "ab" in another case
CaseVariants == {<<"A", "B">>, <<"A", "b">>, <<"a", "B">>}

\* C5: for a service_data rule with a non-empty string source_key the exact
\* key wins when present (even if the lowercased key is present too), else
\* the lowercased key when present, else None; no other case variant is tried.
C5_ServiceLookup ==
    (~Unseen /\ rule.source_type = SOURCE_SERVICE
        /\ rule.source_key.t = "str" /\ Len(rule.source_key.v) > 0) =>
        /\ extracted.exc = ""
        /\ IF rule.source_key.v \in KeysOf(info.service_data)
           THEN /\ extracted.v.t = "bytes"
                /\ extracted.v.v = info.service_data.v[rule.source_key.v].v
           ELSE IF /\ rule.source_key.v \in CaseVariants
                   /\ <<"a", "b">> \in KeysOf(info.service_data)
           THEN /\ extracted.v.t = "bytes"
                /\ extracted.v.v = info.service_data.v[<<"a", "b">>].v
           ELSE extracted.v.t = "None"

\* the key "AB" with "AB", "ab" and "Ab" all present: the exact entry is returned
C5_Witness ==
    /\ ~Unseen
    /\ rule.source_type = SOURCE_SERVICE
    /\ rule.source_key.t = "str"
    /\ rule.source_key.v = <<"A", "B">>
    /\ KeysOf(info.service_data) = ServiceKeys
    /\ extracted.v.t = "bytes"
    /\ extracted.v.v = ServicePayload(<<"A", "B">>)

\* C6: extraction and decoding are total: for every snapshot and every rule
\* record (source_key missing, empty, non-numeric or wrongly typed, unknown
\* source_type, absent source data) they return and never raise.
C6_NeverRaises == exc = "" /\ extracted.exc = ""

\* the source the rule selected is absent, empty or too short for offset + length
SourceUnusable ==
    /\ ~Unseen
    /\ extracted.exc = ""
    /\ \/ Falsy(extracted.v)
       \/ rule.offset + rule.length > Len(extracted.v.v)

\* C7: when the selected source is absent, empty or too short, the result
\* published after the advertisement event is available = false, value None,
\* raw_hex None.
C7_UnusableSourceUnavailable ==
    SourceUnusable =>
        /\ attr_available = FALSE
        /\ attr_native_value.t = "None"
        /\ attr_raw_bytes.t = "None"

(***************************************************************************)
(* Properties of the connectivity sensor (LiveSpec)                        *)
(***************************************************************************)
\* C8: the tracker starts Offline with last_seen unset, and every
\* advertisement, from Offline or from Online, leaves is_on true and
\* last_seen equal to the advertisement's timestamp.
C8_ObserveSetsOnline ==
    /\ last_op = "init" => (attr_is_on = FALSE /\ last_seen.t = "None")
    /\ last_op = "advert" =>
          /\ attr_is_on = TRUE
          /\ last_seen.t = "float"
          /\ last_seen.v = mono

\* a device that was seen and timed out is Online again after its next advertisement
C8_Witness ==
    /\ last_op = "advert"
    /\ prev_is_on = FALSE
    /\ prev_last_seen.t = "float"
    /\ attr_is_on = TRUE
    /\ last_seen.v = mono
    /\ last_seen.v > prev_last_seen.v

\* the timestamp the last timeout check was handed
NowTimestamp == epoch + mono

\* C9: the timeout check changes nothing and writes nothing when last_seen is
\* unset or the tracker is already Offline; when Online and
\* now - last_seen > threshold it goes Offline and writes the state once.
\* Between two advertisements the timeout checks write at most once.
C9_TimeoutOnce ==
    /\ offline_writes <= 1
    /\ (last_op = "tick" /\ (prev_last_seen.t = "None" \/ prev_is_on = FALSE)) =>
          /\ attr_is_on = prev_is_on
          /\ last_seen.t = prev_last_seen.t
          /\ last_seen.t = "float" => last_seen.v = prev_last_seen.v
          /\ wrote = FALSE
    /\ (last_op = "tick" /\ prev_is_on = TRUE /\ prev_last_seen.t = "float"
          /\ NowTimestamp - prev_last_seen.v > CONNECTIVITY_TIMEOUT) =>
          /\ attr_is_on = FALSE
          /\ wrote = TRUE
          /\ offline_writes = 1
          /\ last_seen.v = prev_last_seen.v

\* a further tick after the one that turned the device Offline: nothing is written
C9_Witness ==
    /\ last_op = "tick"
    /\ prev_is_on = FALSE
    /\ prev_last_seen.t = "float"
    /\ attr_is_on = FALSE
    /\ wrote = FALSE
    /\ offline_writes = 1

\* C10: a timer tick never turns an Online device Offline while the time
\* elapsed since its most recent advertisement is at most the 30-second
\* threshold, the tick's now and the advertisement's timestamp being the
\* values the platform delivers, compared as times on one clock.
C10_NoEarlyTimeout ==
    (last_op = "tick" /\ prev_is_on = TRUE /\ attr_is_on = FALSE) =>
        mono - last_seen.v > CONNECTIVITY_TIMEOUT

\* C11: an advertisement observed while the tracker is already Online
\* refreshes last_seen and emits nothing: the state is written by an
\* advertisement only on the way from Offline to Online.
C11_OnlineEdgeOnly ==
    (last_op = "advert" /\ prev_is_on = TRUE) =>
        /\ last_seen.v = mono
        /\ wrote = FALSE

\* C20: last_seen and is_on change together: whenever is_on is true last_seen
\* is set, every step that changes last_seen leaves is_on true, and is_on
\* turns true only in a step that stamps last_seen with the advertisement's
\* timestamp, so no callback runs between the two writes of one observe.
C20_UpdatedTogether ==
    /\ [](attr_is_on = TRUE => last_seen.t = "float")
    /\ [][/\ last_seen' # last_seen => (attr_is_on' = TRUE /\ last_seen'.t = "float")
          /\ (attr_is_on = FALSE /\ attr_is_on' = TRUE) =>
                (last_seen'.t = "float" /\ last_seen'.v = mono')]_vars

\* the first advertisement of a device, some seconds after the entity was created
C20_Witness ==
    /\ last_op = "advert"
    /\ prev_is_on = FALSE
    /\ prev_last_seen.t = "None"
    /\ attr_is_on = TRUE
    /\ last_seen.t = "float"
    /\ last_seen.v = mono
    /\ mono > 0

(***************************************************************************)
(* Properties of the entry and of the entities' life                       *)
(* (EntrySpec, TeardownSpec)                                               *)
(***************************************************************************)
\* C12: once a config entry is set up and its sensor added, the device's
\* connectivity sensor is added too, with its bluetooth callback and its
\* timer registered: an advertisement event reaches the liveness tracker as
\* well as the per-rule sensor, and a timer tick runs its timeout check.
C12_LivenessFed ==
    (entry_state = "loaded" /\ life["rule_sensor"] = "added") =>
        /\ Callback("rule_sensor", "bluetooth") \in registered
        /\ life["connectivity"] = "added"
        /\ Callback("connectivity", "bluetooth") \in registered
        /\ Callback("connectivity", "timer") \in registered
        /\ platform_op = "event" => last_op = "advert"
        /\ platform_op = "tick" => last_op = "tick"

\* C13: every callback an entity registered when it was added is released
\* when the entity is removed: a removed entity has no bluetooth callback and
\* no timer registered, and no later event or tick changes its state.
C13_ReleasedOnRemove ==
    /\ [](\A e \in Entities : life[e] = "removed" => CallbacksOf(e, registered) = {})
    /\ [][/\ life["rule_sensor"] = "removed" => UNCHANGED sensorVars
          /\ life["connectivity"] = "removed" => UNCHANGED connVars]_vars

\* both entities removed while the device was Online and decoded, and a timer
\* interval that would have timed the device out elapsed afterwards
C13_Witness ==
    /\ life["rule_sensor"] = "removed"
    /\ life["connectivity"] = "removed"
    /\ platform_op = "tick"
    /\ attr_is_on = TRUE
    /\ TimedOut(epoch + mono, last_seen.v)
    /\ last_op = "advert"
    /\ attr_available = TRUE

(***************************************************************************)
(* Properties of the options flow (FlowSpec)                               *)
(***************************************************************************)
\* the handler call of the step just taken stored a rule list
Stored(op) == flow_last.op = op /\ flow_last.result = "create_entry"

IdsOf(rules) == {rules[i].id : i \in 1 .. Len(rules)}

\* the fields of a stored rule other than its id
FieldsOf(r) == [k \in DOMAIN r \ {"id"} |-> r[k]]

\* a submitted form as it is stored: an empty source_key or unit becomes None
EmptyAsNone(user_input) ==
    [user_input EXCEPT
        !.source_key = IF user_input.source_key = PyStr(<<>>) THEN None
                       ELSE user_input.source_key,
        !.unit = IF user_input.unit = PyStr(<<>>) THEN None ELSE user_input.unit]

\* the number of rules with the id among the first n
RECURSIVE CountId(_, _, _)
CountId(rules, rule_id, n) ==
    IF n = 0 THEN 0
    ELSE CountId(rules, rule_id, n - 1) + (IF rules[n].id = rule_id THEN 1 ELSE 0)

\* C14: starting from an empty list, after any adds, edits and removes the
\* stored list holds no two rules with the same id, and the rules that remain
\* stand in the order in which they were inserted (a rule's id is the ordinal
\* of the uuid4 call that made it).
C14_UniqueIdsInInsertionOrder ==
    \A i, j \in 1 .. Len(options_rules) :
        i < j => options_rules[i].id < options_rules[j].id

\* the first and the third rule left after the second was removed, the first edited since
C14_Witness ==
    /\ Stored("edit_rule")
    /\ flow_last.rule_id = 1
    /\ Len(options_rules) = 2
    /\ options_rules[1].id = 1
    /\ options_rules[2].id = 3
    /\ options_rules[1].name = "hum"

\* what an add leaves of the list it found: the list unchanged, then one rule
\* whose id is in none of them
AppendsOneFresh(before, after) ==
    /\ Len(after) = Len(before) + 1
    /\ SubSeq(after, 1, Len(before)) = before
    /\ after[Len(after)].id \notin IdsOf(before)

\* C15 as claimed: a completed add stores the previous list unchanged followed
\* by exactly one new rule with a fresh id whose other fields are the submitted ones.
C15_AddAppendsSubmitted ==
    [][(flow_last'.op = "add_rule" /\ flow_last'.result = "create_entry") =>
          /\ AppendsOneFresh(options_rules, options_rules')
          /\ FieldsOf(options_rules'[Len(options_rules')]) = flow_last'.user_input]_vars

\* C15 amended: a completed add stores the previous list unchanged followed by
\* exactly one new rule with a fresh id whose other fields are the submitted
\* ones, an empty source_key or unit being stored as None.
C15_AddAppendsNormalised ==
    [][(flow_last'.op = "add_rule" /\ flow_last'.result = "create_entry") =>
          /\ AppendsOneFresh(options_rules, options_rules')
          /\ FieldsOf(options_rules'[Len(options_rules')])
               = EmptyAsNone(flow_last'.user_input)]_vars

\* a rule with an empty key and unit added behind two rules
C15_Witness ==
    /\ Stored("add_rule")
    /\ Len(options_rules) = 3
    /\ flow_last.rule_id = options_rules[3].id
    /\ flow_last.user_input.source_key = PyStr(<<>>)
    /\ options_rules[3].source_key = None
    /\ options_rules[3].unit = None
    /\ options_rules[3].offset = 1

\* what an edit of rule_id leaves of the list it found: every rule at its
\* place, the one with the id replaced by a rule with the same id and the fields
ReplacesInPlace(before, after, rule_id, fields) ==
    /\ rule_id \in IdsOf(before)
    /\ Len(after) = Len(before)
    /\ \A i \in 1 .. Len(before) :
          IF before[i].id = rule_id
          THEN after[i].id = rule_id /\ FieldsOf(after[i]) = fields
          ELSE after[i] = before[i]

\* an edit handled when no rule has the id: back to the menu, nothing stored
EditNotFound ==
    (flow_last'.op = "edit_rule" /\ flow_last'.rule_id # NoRuleId
       /\ flow_last'.rule_id \notin IdsOf(options_rules)) =>
        /\ flow_last'.result \in {"menu:add_rule", "menu:add_rule,edit_rule,remove_rule"}
        /\ options_rules' = options_rules

\* C16 as claimed: a completed edit of rule X stores a list of the same length
\* with the rule at X's position holding id X and the submitted fields, every
\* other rule unchanged; with no rule of id X the flow returns to the menu and
\* the list is not changed.
C16_EditReplacesSubmitted ==
    [][/\ (flow_last'.op = "edit_rule" /\ flow_last'.result = "create_entry") =>
             ReplacesInPlace(options_rules, options_rules', flow_last'.rule_id,
                             flow_last'.user_input)
       /\ EditNotFound]_vars

\* C16 amended: as claimed, an empty source_key or unit of the submitted
\* fields being stored as None.
C16_EditReplacesNormalised ==
    [][/\ (flow_last'.op = "edit_rule" /\ flow_last'.result = "create_entry") =>
             ReplacesInPlace(options_rules, options_rules', flow_last'.rule_id,
                             EmptyAsNone(flow_last'.user_input))
       /\ EditNotFound]_vars

\* the first of two rules edited to an empty key and unit, the second left as it was
C16_Witness ==
    /\ Stored("edit_rule")
    /\ Len(options_rules) = 2
    /\ flow_last.rule_id = options_rules[1].id
    /\ flow_last.user_input.unit = PyStr(<<>>)
    /\ options_rules[1].unit = None
    /\ options_rules[1].name = "key"
    /\ options_rules[2].name = "temp"

\* what a remove of rule_id leaves of the list it found: the rules with
\* another id, unchanged and in their order
DropsOnly(before, after, rule_id) ==
    /\ Len(after) = Len(before) - CountId(before, rule_id, Len(before))
    /\ \A i \in 1 .. Len(before) :
          before[i].id # rule_id => after[i - CountId(before, rule_id, i)] = before[i]

\* the unique ids the sensors of the rules with the id are registered under
RegisteredUnder(rules, rule_id) ==
    {SensorUniqueId(rules[i], i - 1) : i \in {k \in 1 .. Len(rules) : rules[k].id = rule_id}}

\* in the handler's requests a cleanup of the unique id comes before the commit
CleanupBeforeCommit(log, unique_id) ==
    \E i, j \in 1 .. Len(log) :
        /\ i < j
        /\ log[i] = Effect("cleanup", unique_id)
        /\ log[j].effect = "commit"

\* C17: a completed remove of rule X stores the previous list without the rule
\* of id X, the others unchanged and in order, and the cleanup of the entity
\* with unique id '<address>_rule_<X>', the unique id X's sensor was registered
\* under, is requested before the new list is committed.
C17_RemoveDropsAfterCleanup ==
    [][(flow_last'.op = "remove_rule" /\ flow_last'.result = "create_entry") =>
          /\ DropsOnly(options_rules, options_rules', flow_last'.rule_id)
          /\ \A u \in RegisteredUnder(options_rules, flow_last'.rule_id) :
                /\ CleanupBeforeCommit(flow_log', u)
                /\ u \notin registry'
          /\ \E i \in 1 .. Len(flow_log') : flow_log'[i].effect = "cleanup"]_vars

\* the second of three rules removed, its entity cleaned up
C17_Witness ==
    /\ Stored("remove_rule")
    /\ flow_last.rule_id = 2
    /\ Len(options_rules) = 2
    /\ options_rules[1].id = 1
    /\ options_rules[2].id = 3
    /\ flow_log[1] = Effect("cleanup", <<"_rule_", 2>>)
    /\ registry = {<<"_rule_", 1>>, <<"_rule_", 3>>}

\* the rule of the list with the id
RuleOf(rules, rule_id) == CHOOSE r \in {rules[i] : i \in 1 .. Len(rules)} : r.id = rule_id

\* C18: operations of two options flows on one entry are serialized: every
\* add, edit or remove is computed from the list as the other flow left it, so
\* the ids stored change by the operation's own id only and every other rule
\* is kept as it was: no update is lost.
C18_NoLostUpdate ==
    [][flow_last'.result = "create_entry" =>
          /\ flow_last'.op = "add_rule" =>
                IdsOf(options_rules') = IdsOf(options_rules) \cup {flow_last'.rule_id}
          /\ flow_last'.op = "edit_rule" => IdsOf(options_rules') = IdsOf(options_rules)
          /\ flow_last'.op = "remove_rule" =>
                IdsOf(options_rules') = IdsOf(options_rules) \ {flow_last'.rule_id}
          /\ \A x \in IdsOf(options_rules) \ {flow_last'.rule_id} :
                /\ x \in IdsOf(options_rules')
                /\ RuleOf(options_rules', x) = RuleOf(options_rules, x)]_vars

\* flow f1 edits rule 1 from a form it opened before flow f2 stored a list
\* with rule 2: both the edit and rule 2 are in the stored list
C18_Witness ==
    /\ Stored("edit_rule")
    /\ flow_last.flow = "f1"
    /\ flow_last.overtaken = TRUE
    /\ flow_last.rule_id = 1
    /\ Len(options_rules) = 2
    /\ options_rules[1].name = "hum"
    /\ options_rules[2].id = 2

\* a rule of a shape the decoder cannot use
InvalidShape(r) ==
    \/ r.offset < 0
    \/ r.length < 1
    \/ /\ r.source_type = SOURCE_MANUFACTURER
       /\ \/ Falsy(r.source_key)
          \/ r.source_key.t # "str"
          \/ _parse_int(r.source_key).v = None

\* C19: a rule of an invalid shape is rejected by add and edit and never
\* stored: no stored rule has offset < 0, length < 1, or, for
\* manufacturer_data, a source_key that is empty or no integer literal.
C19_NoInvalidRuleStored ==
    \A i \in 1 .. Len(options_rules) : ~InvalidShape(options_rules[i])

(***************************************************************************)
(* Properties of the entities of two entries (DeviceSpec)                  *)
(***************************************************************************)
\* the step adds the entity to its platform
AddedNow(e) == objects[e].life = "constructed" /\ objects'[e].life = "added"

\* position i holds the first snapshot of the address
IsFirstFor(infos, i, address) ==
    /\ infos[i].address = address
    /\ \A j \in 1 .. i - 1 : infos[j].address # address

\* the entity shows the snapshot s: the tracker Online and last seen at the
\* snapshot's time, a rule sensor the value and the bytes decoded from s, the
\* advertisement sensor its rssi
Shows(self, cls, s) ==
    IF cls = "connectivity"
    THEN self.is_on /\ self.last_seen = PyFloat(s.time)
    ELSE IF cls = "rule"
    THEN /\ self.available
         /\ self.native_value = _parse_rule_value(s, self.rule).value
         /\ self.raw_bytes = _parse_rule_value(s, self.rule).raw_hex
    ELSE self.available /\ self.native_value = PyInt(s.rssi)

\* the entity shows no snapshot: the tracker Offline and never seen, a sensor
\* unavailable with no value
ShowsNothing(self, cls) ==
    IF cls = "connectivity"
    THEN ~self.is_on /\ self.last_seen = None
    ELSE ~self.available /\ self.native_value = None

\* C21: an entity that is added had no callback subscribed before and has its
\* bluetooth callback subscribed afterwards; if the scanner knows a snapshot of
\* the entity's address, the entity then shows the first such snapshot (tracker
\* Online with last_seen = the snapshot's time, rule sensor with the value
\* decoded from it), otherwise it shows nothing (tracker Offline and never
\* seen, sensor unavailable), and an added sensor that is unavailable becomes
\* available only by an advertisement event of its address.
C21_SeededBeforeSubscribed ==
    [][\A e \in DOMAIN objects :
          /\ AddedNow(e) =>
                /\ CallbacksOf(e, subscribed) = {}
                /\ Callback(e, "bluetooth") \in subscribed'
                /\ IF \E i \in DOMAIN service_infos : service_infos[i].address = e.address
                   THEN \E i \in DOMAIN service_infos :
                           /\ IsFirstFor(service_infos, i, e.address)
                           /\ Shows(objects'[e], e.cls, service_infos[i])
                   ELSE ShowsNothing(objects'[e], e.cls)
          /\ (/\ e.cls # "connectivity"
              /\ objects[e].life = "added"
              /\ ~objects[e].available
              /\ objects'[e].life = "added"
              /\ objects'[e].available)
                => device_last' = [op |-> "event", address |-> e.address]]_vars

\* the tracker of "A" was added last, after the timeout had passed since the
\* only advertisement of "A", and shows that advertisement's time; the rule
\* sensor of "B", of which nothing is known, was added and is unavailable
C21_Witness ==
    /\ device_last = [op |-> "add", address |-> "A"]
    /\ mono = CONNECTIVITY_TIMEOUT + 1
    /\ objects[Entity("A", "connectivity", 0)] =
          [life |-> "added", is_on |-> TRUE, last_seen |-> PyFloat(0)]
    /\ \A e \in DOMAIN objects :
          (e.address = "A" /\ e.cls # "connectivity") => objects[e].life = "constructed"
    /\ Len(service_infos) = 1
    /\ service_infos[1].address = "A"
    /\ objects[Entity("B", "rule", 0)].life = "added"
    /\ ~objects[Entity("B", "rule", 0)].available

\* the rule sensors of an address that are added, and so subscribed
AddedRuleSensors(address) ==
    {e \in DOMAIN objects :
        e.address = address /\ e.cls = "rule" /\ objects[e].life = "added"}

\* C22: in an advertisement event of an address, whenever the data of one
\* added rule sensor of the address is unavailable (no value decoded), every
\* other added rule sensor of the address shows the value decoded from the
\* event's snapshot; and an advertisement event or a timeout check of an
\* address leaves every entity of every other address (tracker state and
\* decoded values) unchanged.
C22_Independent ==
    [][\A address \in Addresses :
          /\ device_last' = [op |-> "event", address |-> address] =>
                \E i \in DOMAIN service_infos' :
                    /\ service_infos'[i].address = address
                    /\ \A x \in AddedRuleSensors(address) :
                          _parse_rule_value(service_infos'[i], objects[x].rule).value = None
                              => \A y \in AddedRuleSensors(address) \ {x} :
                                    Shows(objects'[y], "rule", service_infos'[i])
          /\ (device_last'.op \in {"event", "tick"} /\ device_last'.address = address) =>
                \A e \in DOMAIN objects :
                    e.address # address => objects'[e] = objects[e]]_vars

\* an advertisement of "A" was delivered last: one rule sensor of "A" found
\* no data and the other shows a decoded value, while the tracker of "B" is
\* timed out and the rule sensor of "B" holds a decoded value
C22_Witness ==
    /\ device_last = [op |-> "event", address |-> "A"]
    /\ AddedRuleSensors("A") = {Entity("A", "rule", 0), Entity("A", "rule", 1)}
    /\ objects[Entity("A", "rule", 0)].available
    /\ objects[Entity("A", "rule", 0)].native_value = None
    /\ objects[Entity("A", "rule", 1)].native_value # None
    /\ objects[Entity("B", "connectivity", 0)] =
          [life |-> "added", is_on |-> FALSE, last_seen |-> PyFloat(0)]
    /\ objects[Entity("B", "rule", 0)].native_value # None

\* the step hands the entity a snapshot of its address: the entity is added
\* while the scanner knows one, or it is subscribed and an advertisement of
\* its address is delivered
HandedSnapshot(e) ==
    \/ /\ AddedNow(e)
       /\ \E i \in DOMAIN service_infos : service_infos[i].address = e.address
    \/ /\ objects[e].life = "added"
       /\ device_last' = [op |-> "event", address |-> e.address]

\* C24: a sensor entity (advertisement or per-rule) is unavailable as long as
\* it is constructed and not added, turns available only in a step that hands
\* it a snapshot of its address, is available after every such step, and once
\* available stays available in every step that does not replace the entity by
\* a newly constructed one, whatever is decoded and whatever the timeout
\* checks do.
C24_AvailableOnceSeen ==
    [][\A e \in DOMAIN objects :
          e.cls # "connectivity" =>
              /\ objects[e].life = "constructed" => ~objects[e].available
              /\ objects'[e].life = "constructed" => ~objects'[e].available
              /\ (~objects[e].available /\ objects'[e].available) => HandedSnapshot(e)
              /\ HandedSnapshot(e) => objects'[e].available
              /\ (objects[e].available /\ objects'[e].life = "added")
                    => objects'[e].available]_vars

\* the tracker of "A" was timed out by the last timeout check; the sensors of
\* "A" are all available, one rule sensor with no value decoded and the other
\* with a value
C24_Witness ==
    /\ device_last = [op |-> "tick", address |-> "A"]
    /\ objects[Entity("A", "connectivity", 0)] =
          [life |-> "added", is_on |-> FALSE, last_seen |-> PyFloat(0)]
    /\ objects[Entity("A", "advertisement", 0)].available
    /\ objects[Entity("A", "rule", 0)].available
    /\ objects[Entity("A", "rule", 1)].available
    /\ objects[Entity("A", "rule", 0)].native_value # None
    /\ objects[Entity("A", "rule", 1)].native_value = None

(***************************************************************************)
(* Properties of the options menu and its forms (FlowSpec)                 *)
(***************************************************************************)
\* C23: async_step_add_rule called with no user input returns the add_rule
\* form and does not fail.
C23_AddFormShown ==
    (flow_last.op = "add_rule" /\ flow_last.user_input = NoInput)
        => flow_last.result = "form:add_rule"

\* C25: the menu of async_step_init offers edit_rule and remove_rule exactly
\* when the stored rule list is non-empty, and only add_rule when it is empty;
\* and with an empty list async_step_edit_rule and async_step_remove_rule,
\* called with or without input, return that menu and commit nothing: the
\* stored list and the registered entities stay as they were.
C25_EmptyListOnlyAdds ==
    /\ [](flow_last.op = "init" =>
            flow_last.result = IF Len(options_rules) = 0
                               THEN "menu:add_rule"
                               ELSE "menu:add_rule,edit_rule,remove_rule")
    /\ [][(Len(options_rules) = 0 /\ flow_last'.op \in {"edit_rule", "remove_rule"}) =>
            /\ flow_last'.result = "menu:add_rule"
            /\ options_rules' = options_rules
            /\ registry' = registry
            /\ flow_log' = <<>>]_vars

\* a flow that had selected a rule to edit submits the edit form after the
\* other flow removed the last rule: it is returned the menu with add_rule only
C25_Witness ==
    /\ flow_last.op = "edit_rule"
    /\ flow_last.user_input \in FormInputs
    /\ flow_last.rule_id # NoRuleId
    /\ flow_last.result = "menu:add_rule"
    /\ Len(options_rules) = 0
    /\ flow_log = <<>>

====
